---- MODULE Spec2Model ----
(***************************************************************************)
(* Model of the Multi-User Google Calendar MCP server (src/main.py).       *)
(*                                                                         *)
(* The state is the persisted token store plus a record of the last        *)
(* request handled: what came in, what went out, which collaborators the   *)
(* handler called (in order), and the store as it was before the handler   *)
(* ran.  Every route of the application is one action; a handler runs to   *)
(* completion in one step (Spec), and the server then waits for the next   *)
(* request (AwaitRequest), which clears the record of the last one.         *)
(* SpecRace runs callbacks on worker threads that may interleave between    *)
(* load_tokens and save_tokens.                                             *)
(*                                                                         *)
(* Python values: a dict is a function whose domain is the set of keys     *)
(* present; None and the empty string are the two falsy token values.      *)
(* Requests range over envelopes whose present fields have their JSON      *)
(* type (meta, params and arguments are objects when present).             *)
(***************************************************************************)
EXTENDS Integers, Sequences, FiniteSets, TLC

VARIABLES
    tokens,     \* the token store: user_id -> {token, refresh_token}
    request,    \* the last request received
    response,   \* the response (or fault) it ended with
    calls,      \* collaborators the last handler called, in order
    before,     \* the token store as it was when the last handler started
    granted,    \* per user, the refresh token of the latest grant carrying one
    handle,     \* the service the last handler obtained from get_calendar_service
    inflight    \* per worker thread, the callback it is in the middle of

vars == <<tokens, request, response, calls, before, granted, handle, inflight>>

----------------------------------------------------------------------------
(* Bounds of the model *)

NumUsers == 2
NumAccessTokens == 2
NumRefreshTokens == 2
NumIds == 1
NumCallbacks == 2

UserNames == <<"default", "alice", "bob", "carol">>
AccessNames == <<"a1", "a2", "a3", "a4">>
RefreshNames == <<"r1", "r2", "r3", "r4">>
IdNames == <<"id1", "id2", "id3">>

UserIds == {UserNames[i] : i \in 1..NumUsers}
AccessTokens == {AccessNames[i] : i \in 1..NumAccessTokens}
RefreshTokens == {RefreshNames[i] : i \in 1..NumRefreshTokens}
Ids == {IdNames[i] : i \in 1..NumIds}
Threads == 1..NumCallbacks

----------------------------------------------------------------------------
(* Python values *)

None == "<None>"
EmptyStr == ""
EmptyDict == <<>>

\* bool(x) for a token value
Truthy(x) == x \notin {None, EmptyStr}

\* a or b
Or(a, b) == IF Truthy(a) THEN a ELSE b

\* d.get(k, default)
Get(d, k, default) == IF k \in DOMAIN d THEN d[k] ELSE default

\* Mutant: a fresh mapping holding the one key replaces the mapping.
Put_alone(d, k, v) == [x \in {k} |-> v]

\* d[k] = v
Put(d, k, v) == [x \in DOMAIN d \cup {k} |-> IF x = k THEN v ELSE d[x]]

\* the dicts holding either nothing or key k with a value of S
OptField(k, S) == {EmptyDict} \cup {k :> v : v \in S}

----------------------------------------------------------------------------
(* Configuration *)

BASE_URL == "BASE_URL"
REDIRECT_URI == <<BASE_URL, "/auth/google/callback">>

----------------------------------------------------------------------------
(* Token store (tokens.py): load returns what the last save stored *)

load_tokens(store) == store

save_tokens(store, mapping) == mapping

----------------------------------------------------------------------------
(* Helpers *)

\* payload.get("meta", {}).get("user_id", "default")
get_user_id(payload) == Get(Get(payload, "meta", EmptyDict), "user_id", "default")

\* Mutant: the link always names the default user.
auth_message_default(user_id) ==
    << "Google Calendar not connected for user '", user_id, "'. Visit ",
       BASE_URL, "/auth/google?user_id=", "default" >>

\* The f-string of auth_error, as the sequence of its literal and formatted parts.
auth_message(user_id) ==
    << "Google Calendar not connected for user '", user_id, "'. Visit ",
       BASE_URL, "/auth/google?user_id=", user_id >>

\* Mutant: the error envelope does not echo the request's id.
auth_error_null_id(id_, user_id) ==
    [ jsonrpc |-> "2.0",
      id      |-> None,
      error   |-> [code |-> 401, message |-> auth_message(user_id)] ]

auth_error(id_, user_id) ==
    [ jsonrpc |-> "2.0",
      id      |-> id_,
      error   |-> [code |-> 401, message |-> auth_message(user_id)] ]

----------------------------------------------------------------------------
(* What a handler run ends with.  A handler either returns a response or    *)
(* raises; `store` is the token store it leaves and `calls` the             *)
(* collaborators it called, in order.                                       *)

Returned(http, kind, body, store, cs) ==
    [raised |-> None, http |-> http, kind |-> kind, body |-> body,
     store |-> store, calls |-> cs]

Raised(exc, store, cs) ==
    [raised |-> exc, http |-> 0, kind |-> "none", body |-> EmptyDict,
     store |-> store, calls |-> cs]

\* The application object: a returned value is serialised with its status; an
\* exception escaping a handler leaves the application as a fault, answered
\* by the server with a bare 500 that is no RPC envelope.
app(run) ==
    IF run.raised = None
    THEN [http |-> run.http, kind |-> run.kind, body |-> run.body]
    ELSE [http |-> 500, kind |-> "fault", body |-> [raised |-> run.raised]]

----------------------------------------------------------------------------
(* OAuth routes *)

\* flow.authorization_url(access_type="offline", prompt="consent", state=user_id)
authorization_url(user_id) ==
    [ auth_uri     |-> "https://accounts.google.com/o/oauth2/auth",
      access_type  |-> "offline",
      prompt       |-> "consent",
      state        |-> user_id,
      redirect_uri |-> REDIRECT_URI ]

\* GET /auth/google; query holds user_id or nothing (the parameter's default).
google_auth(query, store) ==
    LET user_id == Get(query, "user_id", "default")
        auth_url == authorization_url(user_id)
    IN  Returned(307, "redirect", [location |-> auth_url], store, <<"authorization_url">>)

\* Mutant: the identity is read from user_id, which the callback never carries.
callback_user_id_param(query_params) == Get(query_params, "user_id", "default")

\* request.query_params.get("state", "default")
callback_user_id(query_params) == Get(query_params, "state", "default")

\* Mutant: the new value always wins, also when it is absent.
merged_refresh_overwrite(new_refresh, existing_refresh) == new_refresh

\* Mutant: the stored value wins over a newly granted one.
merged_refresh_keep_old(new_refresh, existing_refresh) == Or(existing_refresh, new_refresh)

\* flow.credentials.refresh_token or existing_refresh
merged_refresh(new_refresh, existing_refresh) == Or(new_refresh, existing_refresh)

\* tokens.get(user_id, {}).get("refresh_token")
existing_refresh_of(tokens_, user_id) ==
    Get(Get(tokens_, user_id, EmptyDict), "refresh_token", None)

\* tokens[user_id] = {"token": ..., "refresh_token": ... or existing_refresh}
callback_update(tokens_, user_id, credentials) ==
    Put(tokens_, user_id,
        [ token         |-> credentials.token,
          refresh_token |-> merged_refresh(credentials.refresh_token,
                                           existing_refresh_of(tokens_, user_id)) ])

\* Mutant: `code is None`, which lets an empty code through.
code_missing_is_none(query_params) == "code" \notin DOMAIN query_params

\* `not code`
code_missing(query_params) == ~Truthy(Get(query_params, "code", None))

\* GET /auth/google/callback.  `exchange` is what the provider's token
\* endpoint does with the code: it raises, or yields the credentials.
google_callback(query_params, store, exchange) ==
    IF code_missing(query_params)
    THEN Returned(200, "json", [status |-> "waiting for google authorization"],
                  store, <<>>)
    ELSE IF exchange.raised # None
    THEN Raised(exchange.raised, store, <<"fetch_token">>)
    ELSE LET user_id == callback_user_id(query_params)
             tokens_ == load_tokens(store)
             updated == callback_update(tokens_, user_id, exchange)
         IN  Returned(200, "json",
                      [status |-> "calendar connected successfully", user |-> user_id],
                      save_tokens(store, updated),
                      <<"fetch_token", "load_tokens", "save_tokens">>)

----------------------------------------------------------------------------
(* Calendar helpers.  `remote` is what the remote calendar service does     *)
(* with the call: "ok", "refreshed" (the handle silently refreshed its      *)
(* access token and the call then succeeded), "RefreshError" (the handle    *)
(* could not refresh its access token) or "HttpError" (any other failure    *)
(* of the provider).                                                        *)

RemoteOutcomes == {"ok", "refreshed", "RefreshError", "HttpError"}

\* .execute() returned
Executed(remote) == remote \in {"ok", "refreshed"}

AUTH_REQUIRED == [tag |-> "AUTH_REQUIRED"]
DELETED == [tag |-> "DELETED"]
Value(v) == [tag |-> "value", value |-> v]

\* What an adapter function ends with: a return value or an exception.
Ret(res, cs) == [raised |-> None, res |-> res, calls |-> cs]
Exc(exc, cs) == [raised |-> exc, res |-> [tag |-> "none"], calls |-> cs]

\* The outcome of an adapter function together with the service it obtained.
Using(service, run) ==
    [raised |-> run.raised, res |-> run.res, calls |-> run.calls, service |-> service]

\* `user_id not in tokens`
no_record(tokens_, user_id) == user_id \notin DOMAIN tokens_

\* Mutant: a user without a record is served with the default user's record.
get_calendar_service_fallback(store, user_id) ==
    LET tokens_ == load_tokens(store)
        key == IF no_record(tokens_, user_id) THEN "default" ELSE user_id
    IN  IF no_record(tokens_, key)
        THEN [built |-> FALSE]
        ELSE [ built |-> TRUE,
               creds |-> [ token         |-> tokens_[key]["token"],
                           refresh_token |-> tokens_[key]["refresh_token"] ] ]

get_calendar_service(store, user_id) ==
    LET tokens_ == load_tokens(store)
    IN  IF no_record(tokens_, user_id)
        THEN [built |-> FALSE]
        ELSE [ built |-> TRUE,
               creds |-> [ token         |-> tokens_[user_id]["token"],
                           refresh_token |-> tokens_[user_id]["refresh_token"] ] ]

calendar_list_events(store, user_id, max_results, remote) ==
    LET service == get_calendar_service(store, user_id)
    IN  IF ~service.built
        THEN Using(service, Ret(AUTH_REQUIRED, <<"load_tokens">>))
        ELSE IF ~Executed(remote)
        THEN Using(service, Exc(remote, <<"load_tokens", "build", "events.list">>))
        ELSE Using(service, Ret(Value([items |-> "upcoming", maxResults |-> max_results]),
                                <<"load_tokens", "build", "events.list">>))

\* Mutant: the `if not service` check is forgotten; None has no events().
calendar_create_event_unchecked(store, user_id, summary, start, end, remote) ==
    LET service == get_calendar_service(store, user_id)
    IN  IF ~service.built
        THEN Using(service, Exc("AttributeError", <<"load_tokens">>))
        ELSE IF ~Executed(remote)
        THEN Using(service, Exc(remote, <<"load_tokens", "build", "events.insert">>))
        ELSE Using(service,
                   Ret(Value([id |-> "created.id", htmlLink |-> "created.htmlLink"]),
                       <<"load_tokens", "build", "events.insert">>))

calendar_create_event(store, user_id, summary, start, end, remote) ==
    LET service == get_calendar_service(store, user_id)
    IN  IF ~service.built
        THEN Using(service, Ret(AUTH_REQUIRED, <<"load_tokens">>))
        ELSE IF ~Executed(remote)
        THEN Using(service, Exc(remote, <<"load_tokens", "build", "events.insert">>))
        ELSE Using(service,
                   Ret(Value([id |-> "created.id", htmlLink |-> "created.htmlLink"]),
                       <<"load_tokens", "build", "events.insert">>))

\* Mutant: the provider's error is swallowed (try/except around the delete).
calendar_delete_event_swallow(store, user_id, event_id, remote) ==
    LET service == get_calendar_service(store, user_id)
    IN  IF ~service.built
        THEN Using(service, Ret(AUTH_REQUIRED, <<"load_tokens">>))
        ELSE Using(service, Ret(DELETED, <<"load_tokens", "build", "events.delete">>))

calendar_delete_event(store, user_id, event_id, remote) ==
    LET service == get_calendar_service(store, user_id)
    IN  IF ~service.built
        THEN Using(service, Ret(AUTH_REQUIRED, <<"load_tokens">>))
        ELSE IF ~Executed(remote)
        THEN Using(service, Exc(remote, <<"load_tokens", "build", "events.delete">>))
        ELSE Using(service, Ret(DELETED, <<"load_tokens", "build", "events.delete">>))

----------------------------------------------------------------------------
(* MCP endpoint *)

ServerInfo == [name |-> "Multi-User Google Calendar MCP", version |-> "0.1.0"]

\* Mutant: the catalog offers the writing tools to connected servers only.
ToolCatalog_connected ==
    IF tokens = EmptyDict
    THEN << [name |-> "calendar.list_events", properties |-> {"max_results"},
             required |-> {}] >>
    ELSE << [name |-> "calendar.list_events", properties |-> {"max_results"},
             required |-> {}],
            [name |-> "calendar.create_event", properties |-> {"summary", "start", "end"},
             required |-> {"summary", "start", "end"}],
            [name |-> "calendar.delete_event", properties |-> {"event_id"},
             required |-> {"event_id"}] >>

ToolCatalog ==
    << [name |-> "calendar.list_events", properties |-> {"max_results"}, required |-> {}],
       [name |-> "calendar.create_event", properties |-> {"summary", "start", "end"},
        required |-> {"summary", "start", "end"}],
       [name |-> "calendar.delete_event", properties |-> {"event_id"},
        required |-> {"event_id"}] >>

Result(id_, result) == [jsonrpc |-> "2.0", id |-> id_, result |-> result]

\* Mutant: the invalid-request code in place of method-not-found.
method_not_found_32600(id_) ==
    [jsonrpc |-> "2.0", id |-> id_,
     error |-> [code |-> -32600, message |-> "Method not found"]]

\* Mutant: the invalid-params code in place of method-not-found.
method_not_found_32602(id_) ==
    [jsonrpc |-> "2.0", id |-> id_,
     error |-> [code |-> -32602, message |-> "Method not found"]]

method_not_found(id_) ==
    [jsonrpc |-> "2.0", id |-> id_,
     error |-> [code |-> -32601, message |-> "Method not found"]]

\* Mutant: after a call the handler writes the handle's credentials back to
\* the store, without the refresh token.
tool_response_write_back(id_, user_id, store, run, content) ==
    LET ended ==
            IF run.raised # None
            THEN Raised(run.raised, store, run.calls)
            ELSE IF run.res.tag = "AUTH_REQUIRED"
            THEN Returned(200, "json", auth_error(id_, user_id), store, run.calls)
            ELSE Returned(200, "json", Result(id_, [content |-> <<content>>]),
                          Put(store, user_id, [token |-> run.service.creds.token,
                                               refresh_token |-> None]),
                          run.calls \o <<"save_tokens">>)
    IN  [ raised |-> ended.raised, http |-> ended.http, kind |-> ended.kind,
          body |-> ended.body, store |-> ended.store, calls |-> ended.calls,
          service |-> run.service ]

\* The three lines that follow an adapter call: the exception passes through,
\* the sentinel becomes auth_error, anything else is wrapped in `content`.
tool_response(id_, user_id, store, run, content) ==
    LET ended ==
            IF run.raised # None
            THEN Raised(run.raised, store, run.calls)
            ELSE IF run.res.tag = "AUTH_REQUIRED"
            THEN Returned(200, "json", auth_error(id_, user_id), store, run.calls)
            ELSE Returned(200, "json", Result(id_, [content |-> <<content>>]),
                          store, run.calls)
    IN  [ raised |-> ended.raised, http |-> ended.http, kind |-> ended.kind,
          body |-> ended.body, store |-> ended.store, calls |-> ended.calls,
          service |-> run.service ]

json_content(run) ==
    [type |-> "json", json |-> IF run.res.tag = "value" THEN run.res.value ELSE run.res]

\* The delete confirmation (the text after the source's leading emoji).
text_content == [type |-> "text", text |-> "Event deleted"]

\* payload["params"]["name"] and the branch taken for it
tools_call(payload, id_, user_id, store, remote) ==
    IF "params" \notin DOMAIN payload
    THEN Raised("KeyError", store, <<>>)
    ELSE IF "name" \notin DOMAIN payload["params"]
    THEN Raised("KeyError", store, <<>>)
    ELSE
    LET tool == payload["params"]["name"]
        args == Get(payload["params"], "arguments", EmptyDict)
    IN  IF tool = "calendar.list_events"
        THEN LET run == calendar_list_events(store, user_id,
                                             Get(args, "max_results", 10), remote)
             IN  tool_response(id_, user_id, store, run, json_content(run))
        ELSE IF tool = "calendar.create_event"
        THEN IF {"summary", "start", "end"} \subseteq DOMAIN args
             THEN LET run == calendar_create_event(store, user_id, args["summary"],
                                                   args["start"], args["end"], remote)
                  IN  tool_response(id_, user_id, store, run, json_content(run))
             ELSE Raised("KeyError", store, <<>>)
        ELSE IF tool = "calendar.delete_event"
        THEN IF "event_id" \in DOMAIN args
             THEN LET run == calendar_delete_event(store, user_id, args["event_id"], remote)
                  IN  tool_response(id_, user_id, store, run, text_content)
             ELSE Raised("KeyError", store, <<>>)
        ELSE Returned(400, "json", method_not_found(id_), store, <<>>)

mcp_handler(payload, store, remote) ==
    LET method == Get(payload, "method", None)
        id_ == Get(payload, "id", None)
        user_id == get_user_id(payload)
    IN  IF method = "initialize"
        THEN Returned(200, "json", Result(id_, [serverInfo |-> ServerInfo]), store, <<>>)
        ELSE IF method = "tools/list"
        THEN Returned(200, "json", Result(id_, [tools |-> ToolCatalog]), store, <<>>)
        ELSE IF method = "tools/call"
        THEN tools_call(payload, id_, user_id, store, remote)
        ELSE Returned(400, "json", method_not_found(id_), store, <<>>)

\* GET /
health(store) == Returned(200, "json", [status |-> "Calendar MCP running"], store, <<>>)

----------------------------------------------------------------------------
(* Inputs *)

Methods == {"initialize", "tools/list", "tools/call", "foo"}

Tools == {"calendar.list_events", "calendar.create_event", "calendar.delete_event",
          "calendar.update_event"}

\* meta, when present, holds user_id or nothing
Metas == OptField("user_id", UserIds)

\* The arguments a caller may send for a tool: any subset of the properties
\* its schema names (the handler reads no other key).
ArgumentsFor(tool) ==
    CASE tool = "calendar.list_events"  -> OptField("max_results", {5})
      [] tool = "calendar.create_event" ->
             {[k \in S |-> k] : S \in SUBSET {"summary", "start", "end"}}
      [] tool = "calendar.delete_event" -> OptField("event_id", {"evt1"})
      [] OTHER -> {EmptyDict}

\* params, when present: with or without name, with or without arguments
Params ==
    {EmptyDict} \cup
    UNION {{("name" :> t) @@ a : a \in OptField("arguments", ArgumentsFor(t))} : t \in Tools}

\* The request envelopes: every field may be missing; params is read by
\* tools/call alone.
Payloads ==
    UNION {{m @@ i @@ me @@ pa :
              i \in OptField("id", Ids),
              me \in OptField("meta", Metas),
              pa \in IF m = ("method" :> "tools/call")
                     THEN OptField("params", Params) ELSE {EmptyDict}} :
           m \in OptField("method", Methods)}

AuthQueries == OptField("user_id", UserIds)

CallbackQueries ==
    {c @@ s : c \in OptField("code", {EmptyStr, "code1"}), s \in OptField("state", UserIds)}

NoExchange == [raised |-> "unused", token |-> None, refresh_token |-> None]

\* What the token endpoint answers: a failure, or an access token with a
\* refresh token that may be missing (None) or empty.
Exchanges ==
    {[raised |-> "OAuthError", token |-> None, refresh_token |-> None]} \cup
    {[raised |-> None, token |-> a, refresh_token |-> r] :
        a \in AccessTokens, r \in RefreshTokens \cup {None, EmptyStr}}

----------------------------------------------------------------------------
(* The state machine *)

IsRemoteCall(c) == c \in {"events.list", "events.insert", "events.delete"}

RemoteCalled(cs) == \E n \in 1..Len(cs) : IsRemoteCall(cs[n])

NoRequest == [route |-> "none"]
NoResponse == [http |-> 0, kind |-> "none", body |-> EmptyDict]
NoHandle == [built |-> FALSE]
NoCallback == [pc |-> "idle"]

\* The service a handler run obtained, if it asked for one.
ServiceOf(run) == IF "service" \in DOMAIN run THEN run.service ELSE NoHandle

Init ==
    /\ tokens = EmptyDict
    /\ request = NoRequest
    /\ response = NoResponse
    /\ calls = <<>>
    /\ before = EmptyDict
    /\ granted = [u \in UserIds |-> None]
    /\ handle = NoHandle
    /\ inflight = [t \in Threads |-> NoCallback]

\* The server is waiting for a request.
Idle == request = NoRequest

\* The response has been sent; the server waits for the next request.
AwaitRequest ==
    /\ ~Idle
    /\ request' = NoRequest
    /\ response' = NoResponse
    /\ calls' = <<>>
    /\ before' = tokens
    /\ handle' = NoHandle
    /\ UNCHANGED <<tokens, granted, inflight>>

\* POST /mcp
PostMcp ==
    /\ Idle
    /\ \E payload \in Payloads, remote \in RemoteOutcomes :
        LET run == mcp_handler(payload, tokens, remote)
        IN  /\ request' = [route |-> "POST /mcp", payload |-> payload,
                           remote |-> IF RemoteCalled(run.calls) THEN remote ELSE "none"]
            /\ response' = app(run)
            /\ calls' = run.calls
            /\ before' = tokens
            /\ tokens' = run.store
            /\ handle' = ServiceOf(run)
            /\ UNCHANGED <<granted, inflight>>

\* GET /auth/google
GetAuthGoogle ==
    /\ Idle
    /\ \E query \in AuthQueries :
        LET run == google_auth(query, tokens)
        IN  /\ request' = [route |-> "GET /auth/google", query |-> query]
            /\ response' = app(run)
            /\ calls' = run.calls
            /\ before' = tokens
            /\ tokens' = run.store
            /\ handle' = ServiceOf(run)
            /\ UNCHANGED <<granted, inflight>>

\* The key a callback request names, and whether it carries a code.
StateOf(query) == IF "state" \in DOMAIN query THEN query["state"] ELSE "default"
HasCode(query) == "code" \in DOMAIN query /\ query["code"] # EmptyStr

\* GET /auth/google/callback
GetAuthGoogleCallback ==
    /\ Idle
    /\ \E query \in CallbackQueries, exchange \in Exchanges :
        LET run == google_callback(query, tokens, exchange)
            exchanged == HasCode(query)
        IN  /\ request' = [route |-> "GET /auth/google/callback", query |-> query,
                           exchange |-> IF exchanged THEN exchange ELSE NoExchange]
            /\ response' = app(run)
            /\ calls' = run.calls
            /\ before' = tokens
            /\ tokens' = run.store
            /\ granted' = IF exchanged /\ exchange.raised = None
                             /\ Truthy(exchange.refresh_token)
                          THEN [granted EXCEPT ![StateOf(query)] = exchange.refresh_token]
                          ELSE granted
            /\ handle' = ServiceOf(run)
            /\ UNCHANGED inflight

\* GET /
GetRoot ==
    LET run == health(tokens)
    IN  /\ Idle
        /\ request' = [route |-> "GET /"]
        /\ response' = app(run)
        /\ calls' = run.calls
        /\ before' = tokens
        /\ tokens' = run.store
        /\ handle' = ServiceOf(run)
        /\ UNCHANGED <<granted, inflight>>

Next ==
    \/ PostMcp
    \/ GetAuthGoogle
    \/ GetAuthGoogleCallback
    \/ GetRoot
    \/ AwaitRequest

Spec == Init /\ [][Next]_vars

----------------------------------------------------------------------------
(* Callbacks on worker threads.  google_callback is a plain `def`, which    *)
(* the application runs on a thread pool: two callbacks may both have       *)
(* loaded the store before either saves.  A thread runs one callback that   *)
(* carries a code and whose token exchange succeeds.                        *)

\* Lines 91-100: the code is exchanged, the identity read, the store loaded.
CallbackLoad(t) ==
    /\ inflight[t].pc = "idle"
    /\ \E query \in CallbackQueries, exchange \in Exchanges :
          /\ ~code_missing(query)
          /\ exchange.raised = None
          /\ inflight' = [inflight EXCEPT ![t] =
                 [ pc          |-> "loaded",
                   user_id     |-> callback_user_id(query),
                   credentials |-> exchange,
                   tokens_     |-> load_tokens(tokens) ]]
          /\ granted' = IF Truthy(exchange.refresh_token)
                        THEN [granted EXCEPT ![StateOf(query)] = exchange.refresh_token]
                        ELSE granted
    /\ UNCHANGED <<tokens, request, response, calls, before, handle>>

\* Lines 101-109: the record is merged into the mapping loaded and saved.
CallbackSave(t) ==
    /\ inflight[t].pc = "loaded"
    /\ tokens' = save_tokens(tokens,
                             callback_update(inflight[t].tokens_, inflight[t].user_id,
                                             inflight[t].credentials))
    /\ inflight' = [inflight EXCEPT ![t] =
           [ pc          |-> "saved",
             user_id     |-> inflight[t].user_id,
             credentials |-> inflight[t].credentials,
             tokens_     |-> inflight[t].tokens_ ]]
    /\ UNCHANGED <<request, response, calls, before, granted, handle>>

NextRace == \E t \in Threads : CallbackLoad(t) \/ CallbackSave(t)

SpecRace == Init /\ [][NextRace]_vars

----------------------------------------------------------------------------
(* Vocabulary of the properties, read off the request as the caller sent it *)
(* and the response as the caller sees it.                                  *)

IsMcp == request.route = "POST /mcp"
IsAuth == request.route = "GET /auth/google"
IsCallback == request.route = "GET /auth/google/callback"

\* The method, id and user identity the envelope carries.
MethodOf(payload) == IF "method" \in DOMAIN payload THEN payload["method"] ELSE None
IdOf(payload) == IF "id" \in DOMAIN payload THEN payload["id"] ELSE None
UserOf(payload) ==
    IF "meta" \in DOMAIN payload /\ "user_id" \in DOMAIN payload["meta"]
    THEN payload["meta"]["user_id"] ELSE "default"

IsToolsCall == IsMcp /\ MethodOf(request.payload) = "tools/call"
HasToolName == IsToolsCall /\ "params" \in DOMAIN request.payload
                  /\ "name" \in DOMAIN request.payload["params"]
ToolName == request.payload["params"]["name"]
ArgumentKeys ==
    IF "arguments" \in DOMAIN request.payload["params"]
    THEN DOMAIN request.payload["params"]["arguments"] ELSE {}

CatalogTools == {"calendar.list_events", "calendar.create_event", "calendar.delete_event"}
RequiredArgs(tool) ==
    CASE tool = "calendar.create_event" -> {"summary", "start", "end"}
      [] tool = "calendar.delete_event" -> {"event_id"}
      [] OTHER -> {}

\* A call of a catalog tool carrying the arguments its schema requires.
WellFormedToolCall ==
    /\ HasToolName
    /\ ToolName \in CatalogTools
    /\ RequiredArgs(ToolName) \subseteq ArgumentKeys

\* A call of create_event or delete_event lacking a required argument.
MissingArguments ==
    /\ HasToolName
    /\ ToolName \in {"calendar.create_event", "calendar.delete_event"}
    /\ ~(RequiredArgs(ToolName) \subseteq ArgumentKeys)

\* The response is an RPC envelope answering the request with correlation id i.
IsEnvelope(i) ==
    /\ response.kind = "json"
    /\ {"jsonrpc", "id"} \subseteq DOMAIN response.body
    /\ response.body["jsonrpc"] = "2.0"
    /\ response.body["id"] = i

IsErrorEnvelope(i) == IsEnvelope(i) /\ "error" \in DOMAIN response.body

\* The message names the authorization URL of user u.
MentionsAuthUrl(message, u) ==
    \E n \in 1..(Len(message) - 2) :
        /\ message[n] = BASE_URL
        /\ message[n + 1] = "/auth/google?user_id="
        /\ message[n + 2] = u

\* The response is the AuthRequired error for user u.
IsAuthRequired(i, u) ==
    /\ IsErrorEnvelope(i)
    /\ response.body["error"].code = 401
    /\ MentionsAuthUrl(response.body["error"].message, u)

HasRecord(store, u) == u \in DOMAIN store
HasRefresh(store, u) == HasRecord(store, u) /\ Truthy(store[u].refresh_token)
RefreshIn(store, u) == IF HasRecord(store, u) THEN store[u].refresh_token ELSE None

\* A callback that carried a code and whose token exchange succeeded.
CompletedAuthorization ==
    IsCallback /\ HasCode(request.query) /\ request.exchange.raised = None

----------------------------------------------------------------------------
(* Claims *)

\* C1: with callbacks run one at a time, a user's record that holds a refresh
\* token holds one after every step, also after a callback whose token
\* response carries no refresh token.
C1_RefreshTokenNeverLost ==
    [][\A u \in UserIds : HasRefresh(tokens, u) => HasRefresh(tokens', u)]_vars

\* C1 witness: a user holding a refresh token re-authorized, the grant carried
\* no refresh token, and the record still holds one.
C1_Witness ==
    /\ CompletedAuthorization
    /\ request.exchange.refresh_token = None
    /\ HasRefresh(before, StateOf(request.query))
    /\ HasRefresh(tokens, StateOf(request.query))

\* C2: a successful callback for U leaves U's record equal to the granted
\* access token with the granted refresh token if one was granted, otherwise
\* the refresh token stored before; so every stored refresh token is the one
\* of the latest grant that carried one.
C2_RecordAfterCallback ==
    /\ CompletedAuthorization =>
         LET u == StateOf(request.query)
             g == request.exchange
         IN  /\ HasRecord(tokens, u)
             /\ tokens[u] = [ token         |-> g.token,
                              refresh_token |-> IF Truthy(g.refresh_token)
                                                THEN g.refresh_token
                                                ELSE RefreshIn(before, u) ]
    /\ \A u \in DOMAIN tokens : tokens[u].refresh_token = granted[u]

\* C2 witness: stored {a1, r1}, grant {a2, absent}, record {a2, r1}.
C2_Witness ==
    /\ CompletedAuthorization
    /\ LET u == StateOf(request.query)
       IN  /\ HasRecord(before, u)
           /\ before[u] = [token |-> "a1", refresh_token |-> "r1"]
           /\ request.exchange.token = "a2"
           /\ request.exchange.refresh_token = None
           /\ tokens[u] = [token |-> "a2", refresh_token |-> "r1"]

\* C3 as stated: for a user with no stored credentials, any tools/call
\* yields the AuthRequired error (code 401) whose message contains the
\* authorization URL of that user ("default" when the request names none).
C3_AnyToolCallUnauthenticated ==
    (IsToolsCall /\ ~HasRecord(before, UserOf(request.payload)))
        => IsAuthRequired(IdOf(request.payload), UserOf(request.payload))

\* C3 amended: for a user with no stored credentials, a tools/call of one of
\* the three catalog tools that carries the tool's required arguments yields
\* the AuthRequired error (code 401) whose message contains the authorization
\* URL of that user ("default" when the request names none).
C3_WellFormedToolCallUnauthenticated ==
    (WellFormedToolCall /\ ~HasRecord(before, UserOf(request.payload)))
        => /\ IsAuthRequired(IdOf(request.payload), UserOf(request.payload))
           /\ ~RemoteCalled(calls)

\* C3 witness: another user is connected, alice is not, and alice's
\* create_event call was answered with the 401 naming alice's URL.
C3_Witness ==
    /\ WellFormedToolCall
    /\ ToolName = "calendar.create_event"
    /\ UserOf(request.payload) = "alice"
    /\ ~HasRecord(before, "alice")
    /\ HasRecord(before, "default")
    /\ IsAuthRequired(IdOf(request.payload), "alice")

\* C3 witness of the default identity: a request without meta is answered
\* with the URL of "default".
C3_WitnessDefault ==
    /\ WellFormedToolCall
    /\ "meta" \notin DOMAIN request.payload
    /\ IsAuthRequired(IdOf(request.payload), "default")

\* C4: every POST /mcp request ends with an RPC envelope carrying jsonrpc and
\* the request's id, on failure paths too; none ends in a fault.
C4_AlwaysEnvelope ==
    IsMcp => IsEnvelope(IdOf(request.payload))

\* C5: a create_event call missing summary, start or end, or a delete_event
\* call missing event_id, ends with an RPC error envelope whose code is
\* neither 401 nor -32601, whether or not the user has credentials.
C5_MissingArgumentsClientError ==
    MissingArguments =>
        /\ IsErrorEnvelope(IdOf(request.payload))
        /\ response.body["error"].code \notin {401, -32601}

\* C6: a tool call whose stored record fails to refresh when the handle is
\* used ends with the 401 AuthRequired envelope, never with a raw exception.
C6_RefreshFailureIsAuthRequired ==
    (IsMcp /\ request.remote = "RefreshError")
        => IsAuthRequired(IdOf(request.payload), UserOf(request.payload))

\* C7: a request whose method is none of initialize, tools/list, tools/call
\* is answered with HTTP 400 and the -32601 "Method not found" body echoing
\* the request's id, and the token store is unchanged.
C7_MethodNotFound ==
    (IsMcp /\ MethodOf(request.payload) \notin {"initialize", "tools/list", "tools/call"})
        => /\ response.http = 400
           /\ response.kind = "json"
           /\ response.body = [ jsonrpc |-> "2.0",
                                id      |-> IdOf(request.payload),
                                error   |-> [ code    |-> -32601,
                                              message |-> "Method not found" ] ]
           /\ tokens = before

\* C7 witness: method "foo" with an id, against a store that holds records.
C7_Witness ==
    /\ IsMcp
    /\ MethodOf(request.payload) = "foo"
    /\ IdOf(request.payload) = "id1"
    /\ before # EmptyDict
    /\ response.http = 400

\* The payloads of initialize and tools/list as published: the server
\* descriptor, and the three tools with their required arguments.
PublishedServerInfo == [name |-> "Multi-User Google Calendar MCP", version |-> "0.1.0"]
PublishedTools ==
    << [name |-> "calendar.list_events", required |-> {}],
       [name |-> "calendar.create_event", required |-> {"summary", "start", "end"}],
       [name |-> "calendar.delete_event", required |-> {"event_id"}] >>
CatalogAsPublished(tools) ==
    /\ Len(tools) = Len(PublishedTools)
    /\ \A n \in 1..Len(tools) :
          /\ tools[n].name = PublishedTools[n].name
          /\ tools[n].required = PublishedTools[n].required

\* C8: in every reachable state initialize and tools/list return the same
\* result payload under the echoed id, leave the token store as it was,
\* and call neither the store, the adapter nor the remote service.
C8_InitializeAndListPure ==
    /\ (IsMcp /\ MethodOf(request.payload) = "initialize")
          => /\ response.http = 200
             /\ IsEnvelope(IdOf(request.payload))
             /\ DOMAIN response.body = {"jsonrpc", "id", "result"}
             /\ response.body["result"] = [serverInfo |-> PublishedServerInfo]
             /\ tokens = before
             /\ calls = <<>>
    /\ (IsMcp /\ MethodOf(request.payload) = "tools/list")
          => /\ response.http = 200
             /\ IsEnvelope(IdOf(request.payload))
             /\ DOMAIN response.body = {"jsonrpc", "id", "result"}
             /\ DOMAIN response.body["result"] = {"tools"}
             /\ CatalogAsPublished(response.body["result"].tools)
             /\ tokens = before
             /\ calls = <<>>

\* C8 witness: tools/list answered while the store holds a record for every
\* user, after callbacks have run.
C8_Witness ==
    /\ IsMcp
    /\ MethodOf(request.payload) = "tools/list"
    /\ DOMAIN before = UserIds
    /\ "result" \in DOMAIN response.body

\* C9: the URL built for user U carries state = U ("default" without a
\* user_id parameter); a callback with a code and state = U writes the record
\* under key U alone and reports U; without state it writes under "default".
C9_StateRoundTrip ==
    /\ IsAuth =>
          /\ response.kind = "redirect"
          /\ response.body.location.state =
                (IF "user_id" \in DOMAIN request.query
                 THEN request.query["user_id"] ELSE "default")
    /\ CompletedAuthorization =>
          LET u == IF "state" \in DOMAIN request.query
                   THEN request.query["state"] ELSE "default"
          IN  /\ HasRecord(tokens, u)
              /\ tokens[u].token = request.exchange.token
              /\ response.body = [status |-> "calendar connected successfully", user |-> u]
              /\ \A v \in UserIds \ {u} :
                    /\ HasRecord(tokens, v) <=> HasRecord(before, v)
                    /\ HasRecord(tokens, v) => tokens[v] = before[v]

\* C9 witness: a callback with state = alice created alice's record while
\* "default" had none.
C9_Witness ==
    /\ CompletedAuthorization
    /\ "state" \in DOMAIN request.query
    /\ request.query["state"] = "alice"
    /\ ~HasRecord(before, "alice")
    /\ DOMAIN tokens = {"alice"}
    /\ response.body.user = "alice"

\* C9 witness without state: the record was written under "default".
C9_WitnessNoState ==
    /\ CompletedAuthorization
    /\ "state" \notin DOMAIN request.query
    /\ HasRecord(before, "alice")
    /\ ~HasRecord(before, "default")
    /\ HasRecord(tokens, "default")

\* C10: a callback without a code returns the waiting-status body, exchanges
\* no token and leaves the token store unchanged for every user.
C10_CallbackWithoutCode ==
    (IsCallback /\ ~HasCode(request.query))
        => /\ response = [ http |-> 200, kind |-> "json",
                           body |-> [status |-> "waiting for google authorization"] ]
           /\ calls = <<>>
           /\ tokens = before

\* C10 witness: a callback with an empty code against a store with records.
C10_Witness ==
    /\ IsCallback
    /\ "code" \in DOMAIN request.query
    /\ request.query["code"] = EmptyStr
    /\ before # EmptyDict
    /\ tokens = before

\* The call is a delete_event call that carries event_id.
IsDeleteCall ==
    HasToolName /\ ToolName = "calendar.delete_event" /\ "event_id" \in ArgumentKeys

\* The response is the success result with the "Event deleted" text block.
IsDeleteSuccess ==
    /\ response.kind = "json"
    /\ "result" \in DOMAIN response.body
    /\ response.body["result"] = [content |-> <<[type |-> "text", text |-> "Event deleted"]>>]

\* C11: a delete_event call is answered with the "Event deleted" result only
\* when the remote delete completed without error; when the provider reports
\* an error, that error leaves the handler as it is and the call is not
\* reported as success.
C11_DeleteErrorPassedThrough ==
    IsDeleteCall =>
        /\ IsDeleteSuccess => (request.remote \in {"ok", "refreshed"}
                               /\ calls = <<"load_tokens", "build", "events.delete">>)
        /\ request.remote \in {"RefreshError", "HttpError"}
              => /\ ~IsDeleteSuccess
                 /\ response.kind = "fault"
                 /\ response.body.raised = request.remote

\* C11 witness: the provider rejected the delete and the call ended with the
\* provider's error.
C11_Witness ==
    /\ IsDeleteCall
    /\ request.remote = "HttpError"
    /\ response.kind = "fault"
    /\ response.body.raised = "HttpError"

\* C11 witness of the success side: the delete completed and was confirmed.
C11_WitnessSuccess == IsDeleteCall /\ request.remote = "ok" /\ IsDeleteSuccess

\* Every remote call in the trace comes after the store was loaded.
LookupBeforeRemote(cs) ==
    \A n \in 1..Len(cs) :
        IsRemoteCall(cs[n]) => \E m \in 1..(n - 1) : cs[m] = "load_tokens"

\* C12: in the three calendar operations the handle lookup comes before any
\* remote call, and for a user without a stored record the operation ends
\* with AUTH_REQUIRED after the lookup alone, no remote call being issued.
C12_LookupFirstAndShortCircuit ==
    IsToolsCall =>
        /\ LookupBeforeRemote(calls)
        /\ RemoteCalled(calls) => handle.built
        /\ (WellFormedToolCall /\ ~HasRecord(before, UserOf(request.payload)))
              => /\ calls = <<"load_tokens">>
                 /\ ~handle.built
                 /\ request.remote = "none"
                 /\ IsAuthRequired(IdOf(request.payload), UserOf(request.payload))

\* C12 witness: create_event for a user without a record, while another user
\* is connected, ended after the lookup alone.
C12_Witness ==
    /\ WellFormedToolCall
    /\ ToolName = "calendar.create_event"
    /\ ~HasRecord(before, UserOf(request.payload))
    /\ before # EmptyDict
    /\ calls = <<"load_tokens">>

\* C12 witness of the order: a connected user's call reached the remote
\* service after the lookup.
C12_WitnessRemote == WellFormedToolCall /\ RemoteCalled(calls) /\ calls[1] = "load_tokens"

\* C13: a Credential Record that exists for a user exists after every step,
\* under any sequence and any interleaving of requests: the per-user state
\* moves from Unauthenticated to Authenticated and never back.
C13_RecordNeverRemoved ==
    [][\A u \in UserIds : HasRecord(tokens, u) => HasRecord(tokens', u)]_vars

\* The callbacks of threads s and t have both saved, and were for the same user.
BothSavedFor(s, t, u) ==
    /\ inflight[s].pc = "saved" /\ inflight[s].user_id = u
    /\ inflight[t].pc = "saved" /\ inflight[t].user_id = u

\* C14: when two callbacks for the same user interleave their load and save
\* steps, and either of them was granted a refresh token, the record after
\* both have saved holds a refresh token.
C14_RaceKeepsRefreshToken ==
    \A s, t \in Threads : \A u \in UserIds :
        (s # t /\ BothSavedFor(s, t, u)
            /\ (Truthy(inflight[s].credentials.refresh_token)
                \/ Truthy(inflight[t].credentials.refresh_token)))
        => HasRefresh(tokens, u)

\* A user's Credential Record in a store: its presence and its two tokens.
RecordOf(store, v) ==
    IF HasRecord(store, v)
    THEN [present |-> TRUE, access_token |-> store[v].token,
          refresh_token |-> store[v].refresh_token]
    ELSE [present |-> FALSE, access_token |-> None, refresh_token |-> None]

\* C15: a callback for user U that runs its load-merge-save without
\* interleaving changes the entry of U alone: every other user's record
\* (presence, access_token, refresh_token) is the same before and after.
C15_OtherUsersUntouched ==
    IsCallback =>
        /\ \A v \in UserIds \ {StateOf(request.query)} :
              RecordOf(tokens, v) = RecordOf(before, v)
        /\ DOMAIN tokens \subseteq UserIds

\* C15 witness: a callback for alice replaced alice's record while "default"
\* held a record, which is unchanged.
C15_Witness ==
    /\ CompletedAuthorization
    /\ StateOf(request.query) = "alice"
    /\ HasRecord(before, "default")
    /\ HasRecord(before, "alice")
    /\ tokens["alice"] # before["alice"]
    /\ tokens["default"] = before["default"]

\* C16: every response envelope of mcp_handler and auth_error carries
\* jsonrpc "2.0", the id of the request (null when the request has none) and
\* exactly one of result and error.
C16_EnvelopeShape ==
    (IsMcp /\ response.kind = "json") =>
        /\ {"jsonrpc", "id"} \subseteq DOMAIN response.body
        /\ DOMAIN response.body \subseteq {"jsonrpc", "id", "result", "error"}
        /\ response.body["jsonrpc"] = "2.0"
        /\ response.body["id"] = (IF "id" \in DOMAIN request.payload
                                  THEN request.payload["id"] ELSE None)
        /\ ("result" \in DOMAIN response.body) # ("error" \in DOMAIN response.body)

\* C16 witness: the auth_error envelope answering a request with id "id1".
C16_Witness ==
    /\ IsToolsCall
    /\ "id" \in DOMAIN request.payload
    /\ response.kind = "json"
    /\ "error" \in DOMAIN response.body
    /\ response.body["error"].code = 401
    /\ response.body["id"] = "id1"

\* C16 witness of the absent id: a result envelope echoing null.
C16_WitnessNullId ==
    /\ IsToolsCall
    /\ "id" \notin DOMAIN request.payload
    /\ response.kind = "json"
    /\ "result" \in DOMAIN response.body
    /\ response.body["id"] = None

\* C17: no POST /mcp request writes the token store, a tool call whose
\* handle silently refreshes its access token included; whenever a request
\* changed the store it was an authorization callback carrying a code.
C17_OnlyCallbackWrites ==
    /\ IsMcp =>
          /\ tokens = before
          /\ \A n \in 1..Len(calls) : calls[n] # "save_tokens"
    /\ tokens # before => CompletedAuthorization

\* C17 witness: a connected user's tool call succeeded after a silent refresh
\* and the store is as it was.
C17_Witness ==
    /\ WellFormedToolCall
    /\ request.remote = "refreshed"
    /\ HasRecord(before, UserOf(request.payload))
    /\ "result" \in DOMAIN response.body
    /\ tokens = before

\* C18: the handle of a tool call for user U is built from the record stored
\* under key U when the call is made; a remote call is made with such a
\* handle only, and a user without a record gets no handle.
C18_HandleFromOwnRecord ==
    IsMcp =>
        LET u == UserOf(request.payload)
        IN  /\ handle.built =>
                  /\ HasRecord(before, u)
                  /\ handle.creds = [ token         |-> before[u].token,
                                      refresh_token |-> before[u].refresh_token ]
            /\ RemoteCalled(calls) => handle.built
            /\ ~HasRecord(before, u) => ~handle.built

\* C18 witness: both users hold records with different tokens, and alice's
\* call went out with alice's tokens.
C18_Witness ==
    /\ WellFormedToolCall
    /\ UserOf(request.payload) = "alice"
    /\ HasRecord(before, "alice")
    /\ HasRecord(before, "default")
    /\ before["alice"].token # before["default"].token
    /\ RemoteCalled(calls)
    /\ handle.creds.token = before["alice"].token

\* C18 witness of the record-less user: "default" is connected, alice is
\* not, and alice's call got no handle.
C18_WitnessNoRecord ==
    /\ WellFormedToolCall
    /\ UserOf(request.payload) = "alice"
    /\ ~HasRecord(before, "alice")
    /\ HasRecord(before, "default")
    /\ ~handle.built

\* C19: a tools/call whose params.name is none of the three catalog tools is
\* answered like an unknown method, HTTP 400 with code -32601, with no
\* credential lookup and no remote call, whether or not the user is connected.
C19_UnknownToolNotFound ==
    (HasToolName /\ ToolName \notin CatalogTools) =>
        /\ response.http = 400
        /\ response.kind = "json"
        /\ response.body = [ jsonrpc |-> "2.0",
                             id      |-> IdOf(request.payload),
                             error   |-> [ code    |-> -32601,
                                           message |-> "Method not found" ] ]
        /\ calls = <<>>
        /\ ~handle.built
        /\ tokens = before

\* C19 witness: a connected user called an unknown tool and got the 400.
C19_Witness ==
    /\ HasToolName
    /\ ToolName = "calendar.update_event"
    /\ HasRecord(before, UserOf(request.payload))
    /\ response.http = 400

====
